---- MODULE Spec2Model ----
(***************************************************************************)
(* A model of erdos/operators.py: the record/replay operators (RecordOp,   *)
(* ReplayOp) over one pickled stream file, and the stateless               *)
(* transformation operators (WhereOp, MapOp, MapManyOp, ConcatOp, UnzipOp). *)
(***************************************************************************)
EXTENDS Integers, Sequences, FiniteSets, TLC

(* ---------------------------- bounds ---------------------------------- *)
\* messages the engine delivers to a RecordOp in one run
MaxMsgs == 3
\* calls of ReplayOp.publish_data the model follows after execute
MaxCalls == 5
\* messages handed to a transformation operator in one run
MaxOpMsgs == 2
\* messages in a file a player finds on disk
MaxFileMsgs == 2

(* ------------------------- record / replay ----------------------------- *)
VARIABLES
    input_streams,   \* RecordOp.input_streams: declared (data_type, name), in order
    filter,          \* the name filter given to RecordOp.setup_streams ("" = none)
    callbacks,       \* names of the streams RecordOp.record_data is registered on
    rec_pc,          \* RecordOp: "new" | "ready" | "running" | "stopped"
    rec_has_file,    \* RecordOp._file has been assigned (execute ran)
    file,            \* the content of the file `filename`: a sequence of pickles
    delivered,       \* history: the messages arriving on the input streams, in order:
                     \* [msg, called: record_data was invoked, ok: it returned]
    frequency,       \* ReplayOp.frequency
    rp_pc,           \* ReplayOp: "new" | "setup" | "running" | "failed" (an error
                     \* propagated out of setup_streams or publish_data)
    output_streams,  \* what ReplayOp.setup_streams returned: (data_type, name), in order
    rp_pos,          \* read position of ReplayOp._file (index of the next pickle)
    rp_closed,       \* ReplayOp._file.closed
    emitted,         \* history: every send of ReplayOp, [stream, msg], in order
    rp_calls,        \* history: number of publish_data calls since execute
    rp_raised        \* history: number of publish_data calls that raised

(* --------------------- transformation operators ------------------------ *)
VARIABLES
    op,              \* the operator object: its class and the fields __init__ set
    op_log,          \* history: per on_msg call, the message and what it sent
    op_sent          \* history: every send on an output stream, [stream, msg], in order

op_vars  == <<op, op_log, op_sent>>
rec_vars == <<input_streams, filter, callbacks, rec_pc, rec_has_file, file, delivered>>
rp_vars  == <<frequency, rp_pc, output_streams, rp_pos, rp_closed, emitted, rp_calls, rp_raised>>

StreamNames == {"a", "b"}
Payloads    == {1, 2}
Timestamps  == {1, 2}

\* erdos.message.Message as the operators see it: payload, timestamp and the
\* name of the stream it was sent on
Message(data, ts, name) == [data |-> data, timestamp |-> ts, stream_name |-> name]

\* the declarations of the input streams a RecordOp is built over
StreamA == [data_type |-> "int", name |-> "a"]
StreamB == [data_type |-> "str", name |-> "b"]
InputConfigs == {<<StreamA>>, <<StreamA, StreamB>>, <<StreamB, StreamA>>}

(* pickle.dump / pickle.load: one pickle per object, self-delimiting.      *)
PickleDumpMsg(msg) ==
    [cls |-> "Message", state |-> <<msg.data, msg.timestamp, msg.stream_name>>]

PickleDumpList(info) ==
    [cls |-> "list", items |-> info]

PickleLoadMsg(p) ==
    Message(p.state[1], p.state[2], p.state[3])

PickleLoadList(p) == p.items

IsMsgPickle(p)  == p.cls = "Message"
IsListPickle(p) == p.cls = "list"

\* RecordOp.execute, lines 101-102: (data_type, name) of every input stream
InputStreamInfo(streams) ==
    [i \in 1..Len(streams) |-> <<streams[i].data_type, streams[i].name>>]

\* a file left behind by an earlier recording of stream "a"
OldFile == <<PickleDumpList(<<<<"int", "a">>>>), PickleDumpMsg(Message(2, 1, "a"))>>

\* input_streams.filter_name(filter): the streams with that name
FilterName(streams, f) ==
    {streams[i].name : i \in {j \in 1..Len(streams) : streams[j].name = f}}

AllNames(streams) == {streams[i].name : i \in 1..Len(streams)}

\* RecordOp.setup_streams: register record_data on the (filtered) input streams
RecordSetupStreams ==
    /\ rec_pc = "new"
    /\ callbacks' = IF filter # "" THEN FilterName(input_streams, filter)
                                 ELSE AllNames(input_streams)
    /\ rec_pc' = "ready"
    /\ UNCHANGED <<input_streams, filter, rec_has_file, file, delivered>>
    /\ UNCHANGED <<rp_vars, op_vars>>

\* RecordOp.execute, line 98: open(filename, "wb") truncates the file
ExecuteOpenFile(old) == <<>>

\* a slip: the stream info is taken from the streams the callback is on
ExecuteDumpFile_Filtered(f, streams) ==
    Append(f, PickleDumpList(InputStreamInfo(
                  SelectSeq(streams, LAMBDA st : st.name \in callbacks))))

\* RecordOp.execute, lines 101-103: the stream info is dumped
ExecuteDumpFile(f, streams) == Append(f, PickleDumpList(InputStreamInfo(streams)))

\* RecordOp.execute up to spin()
RecordExecute ==
    /\ rec_pc = "ready"
    /\ rec_has_file' = TRUE
    /\ file' = ExecuteDumpFile(ExecuteOpenFile(file), input_streams)
    /\ rec_pc' = "running"
    /\ UNCHANGED <<input_streams, filter, callbacks, delivered>>
    /\ UNCHANGED <<rp_vars, op_vars>>

\* a slip: the dump goes over the last message record instead of after it
RecordDataFile_Overwrite(old, msg) ==
    IF Len(old) > 1 THEN [old EXCEPT ![Len(old)] = PickleDumpMsg(msg)]
                    ELSE Append(old, PickleDumpMsg(msg))

\* the file after RecordOp.record_data(msg) returned
RecordDataFile(old, msg) == Append(old, PickleDumpMsg(msg))

\* A message arrives on a declared input stream. If record_data is registered
\* on the stream the engine invokes RecordOp.record_data(msg); before execute
\* assigned self._file the callback raises AttributeError and writes nothing.
\* On a stream the name filter left out no callback runs.
RecordData(msg) ==
    /\ msg.stream_name \in AllNames(input_streams)
    /\ Len(delivered) < MaxMsgs
    /\ IF msg.stream_name \notin callbacks
         THEN /\ file' = file
              /\ delivered' = Append(delivered,
                                     [msg |-> msg, called |-> FALSE, ok |-> FALSE])
         ELSE IF rec_has_file
           THEN /\ file' = RecordDataFile(file, msg)
                /\ delivered' = Append(delivered,
                                       [msg |-> msg, called |-> TRUE, ok |-> TRUE])
           ELSE /\ file' = file
                /\ delivered' = Append(delivered,
                                       [msg |-> msg, called |-> TRUE, ok |-> FALSE])
    /\ UNCHANGED <<input_streams, filter, callbacks, rec_pc, rec_has_file>>
    /\ UNCHANGED <<rp_vars, op_vars>>

\* the engine shuts the recorder down; the file stays as it is
RecordStop ==
    /\ rec_pc \in {"ready", "running"}
    /\ rec_pc' = "stopped"
    /\ UNCHANGED <<input_streams, filter, callbacks, rec_has_file, file, delivered>>
    /\ UNCHANGED <<rp_vars, op_vars>>

\* a slip: the output streams are built in reverse order
SetupOutputStreams_Reversed(f) ==
    LET stream_info == PickleLoadList(f[1])
        n == Len(stream_info)
    IN  [i \in 1..n |->
            [data_type |-> stream_info[n + 1 - i][1], name |-> stream_info[n + 1 - i][2]]]

\* ReplayOp.setup_streams: one DataStream per entry of the pickled stream info
SetupOutputStreams(f) ==
    LET stream_info == PickleLoadList(f[1])
    IN  [i \in 1..Len(stream_info) |->
            [data_type |-> stream_info[i][1], name |-> stream_info[i][2]]]

ReplaySetupStreams ==
    /\ rec_pc \in {"stopped", "none"}
    /\ rp_pc = "new"
    /\ IF Len(file) > 0 /\ IsListPickle(file[1])
         THEN /\ output_streams' = SetupOutputStreams(file)
              /\ rp_pc' = "setup"
         ELSE /\ output_streams' = output_streams
              /\ rp_pc' = "failed"
    /\ UNCHANGED <<frequency, rp_pos, rp_closed, emitted, rp_calls, rp_raised>>
    /\ UNCHANGED <<rec_vars, op_vars>>

\* a slip: the stream info is not read past
ExecutePos_NoSkip(f) == 1

\* ReplayOp.execute, lines 144-145: open the file and read past the stream info
ExecutePos(f) == 2

ReplayExecute ==
    /\ rp_pc = "setup"
    /\ rp_pos' = ExecutePos(file)
    /\ rp_closed' = FALSE
    /\ rp_pc' = "running"
    /\ UNCHANGED <<frequency, output_streams, emitted, rp_calls, rp_raised>>
    /\ UNCHANGED <<rec_vars, op_vars>>

OutputNames == {output_streams[i].name : i \in 1..Len(output_streams)}

\* a slip: no guard on a closed file
PublishSkips_Never(closed) == FALSE

\* ReplayOp.publish_data, line 133: the guard on a closed file
PublishSkips(closed) == closed

\* a slip: the output stream is looked up by position, not by name
RouteName_First(msg) == output_streams[1].name

\* ReplayOp.publish_data, line 137: the stream a message is sent on
RouteName(msg) == msg.stream_name

\* a slip: the load reads one pickle more than it hands back
AfterLoad_Skip(pos) == pos + 2

\* ReplayOp.publish_data, line 136: pickle.load reads exactly one pickle
AfterLoad(pos) == pos + 1

\* a slip: a bare except
Caught_All(exc) == TRUE

\* ReplayOp.publish_data, line 138: the one exception the handler catches
Caught(exc) == exc = "EOFError"

\* self.get_output_stream(name) for a name that is no output stream fails
LookupFails(name) == name \notin OutputNames

\* what lines 136-137 raise, "none" if they run through:
\*   ValueError     - a read of a closed file
\*   EOFError       - a read at the end of the file
\*   AttributeError - the object read has no stream_name
\*   LookupError    - no output stream of that name
Raised ==
    IF rp_closed THEN "ValueError"
    ELSE IF rp_pos > Len(file) THEN "EOFError"
    ELSE IF ~IsMsgPickle(file[rp_pos]) THEN "AttributeError"
    ELSE IF LookupFails(RouteName(PickleLoadMsg(file[rp_pos]))) THEN "LookupError"
    ELSE "none"

\* ReplayOp.publish_data: the effect of one call. An exception the handler
\* does not catch propagates out of execute and ends the operator.
PublishData ==
    /\ rp_calls' = rp_calls + 1
    /\ IF PublishSkips(rp_closed)
         THEN UNCHANGED <<rp_pos, rp_closed, emitted, rp_raised, rp_pc>>
         ELSE LET exc == Raised
                  read == exc \notin {"ValueError", "EOFError"}
              IN  /\ rp_pos' = IF read THEN AfterLoad(rp_pos) ELSE rp_pos
                  /\ emitted' =
                        IF exc = "none"
                          THEN Append(emitted,
                                   [stream |-> RouteName(PickleLoadMsg(file[rp_pos])),
                                    msg |-> PickleLoadMsg(file[rp_pos])])
                          ELSE emitted
                  /\ rp_closed' = IF exc # "none" /\ Caught(exc) THEN TRUE ELSE rp_closed
                  /\ rp_raised' = IF exc # "none" /\ ~Caught(exc)
                                    THEN rp_raised + 1 ELSE rp_raised
                  /\ rp_pc' = IF exc # "none" /\ ~Caught(exc) THEN "failed" ELSE rp_pc

\* ReplayOp.execute, lines 152-153: one iteration of `while True`
PublishLoop ==
    /\ rp_pc = "running"
    /\ frequency = 0
    /\ rp_calls < MaxCalls
    /\ PublishData
    /\ UNCHANGED <<frequency, output_streams>>
    /\ UNCHANGED <<rec_vars, op_vars>>

\* ReplayOp.execute, lines 148-150: one tick of the frequency-driven publish_data
PublishTick ==
    /\ rp_pc = "running"
    /\ frequency # 0
    /\ rp_calls < MaxCalls
    /\ PublishData
    /\ UNCHANGED <<frequency, output_streams>>
    /\ UNCHANGED <<rec_vars, op_vars>>

(* --------------------- WhereOp, MapOp, MapManyOp ------------------------ *)
\* A payload is a plain value (iter = FALSE, v = <<value>>) or an iterable
\* (iter = TRUE, v = its elements in order).
Plain(x)    == [iter |-> FALSE, v |-> <<x>>]
Iterable(s) == [iter |-> TRUE, v |-> s]

PlainPayloads == {Plain(0 - 1), Plain(2)}
IterPayloads  == {Iterable(<<>>), Iterable(<<1>>), Iterable(<<1, 2>>)}
\* an iterable of more than two elements, for UnzipOp
LongPayloads  == {Iterable(<<2, 1, 1>>)}

OutName == "out"
\* the two output streams of an UnzipOp
OutName1 == "left"
OutName2 == "right"
\* the upstream streams a ConcatOp is subscribed to
Upstreams == {"in", "in2"}

\* the lambdas the operators are built with, by name
WhereLambdas   == {"positive", "late"}
MapLambdas     == {"negate", "stamp"}
MapManyLambdas == {"None", "double", "reverse", "stamp", "stamps"}

Operators ==
    {[cls |-> "WhereOp", output_stream_name |-> OutName, lambda |-> l] : l \in WhereLambdas}
    \cup {[cls |-> "MapOp", output_stream_name |-> OutName, lambda |-> l] : l \in MapLambdas}
    \cup {[cls |-> "MapManyOp", output_stream_name |-> OutName, lambda |-> l] :
             l \in MapManyLambdas}
    \cup {[cls |-> "ConcatOp", output_stream_name |-> OutName]}
    \cup {[cls |-> "UnzipOp", output_stream_name1 |-> OutName1,
                              output_stream_name2 |-> OutName2]}

\* the messages the engine hands to an operator of class cls
OpInputs(cls) ==
    {Message(d, t, n) :
        d \in (CASE cls = "MapManyOp" -> PlainPayloads \cup IterPayloads
                 [] cls = "UnzipOp" -> PlainPayloads \cup IterPayloads \cup LongPayloads
                 [] OTHER -> PlainPayloads),
        t \in Timestamps,
        n \in (IF cls = "ConcatOp" THEN Upstreams ELSE {"in"})}

RECURSIVE MapSeq(_, _)
MapSeq(s, k) == IF s = <<>> THEN <<>> ELSE <<Head(s) * k>> \o MapSeq(Tail(s), k)

RECURSIVE Reverse(_)
Reverse(s) == IF s = <<>> THEN <<>> ELSE Append(Reverse(Tail(s)), Head(s))

\* calling a lambda on a message
\*   positive: lambda m: m.data > 0         late:    lambda m: m.timestamp > 1
\*   negate:   lambda m: -m.data            stamp:   lambda m: m.timestamp
\*   double:   lambda m: 2 * m.data, elementwise on an iterable
\*   reverse:  lambda m: reversed(m.data), a plain value unchanged
\*   stamps:   lambda m: [m.timestamp, m.timestamp + 1]
Call(l, msg) ==
    CASE l = "positive" -> msg.data.v[1] > 0
      [] l = "late"     -> msg.timestamp > 1
      [] l = "negate"   -> Plain(0 - msg.data.v[1])
      [] l = "stamp"    -> Plain(msg.timestamp)
      [] l = "double"   -> [iter |-> msg.data.iter, v |-> MapSeq(msg.data.v, 2)]
      [] l = "reverse"  -> [iter |-> msg.data.iter, v |-> Reverse(msg.data.v)]
      [] l = "stamps"   -> Iterable(<<msg.timestamp, msg.timestamp + 1>>)

Send(name, msg) == [stream |-> name, msg |-> msg]

\* a slip: the predicate is not consulted
WhereOnMsg_Always(o, msg) == <<Send(o.output_stream_name, msg)>>

\* WhereOp.on_msg: what one call sends
WhereOnMsg(o, msg) ==
    IF Call(o.lambda, msg) THEN <<Send(o.output_stream_name, msg)>> ELSE <<>>

\* a slip: the original payload is forwarded
MapOnMsg_Unmapped(o, msg) ==
    <<Send(o.output_stream_name, Message(msg.data, msg.timestamp, ""))>>

\* MapOp.on_msg: what one call sends
MapOnMsg(o, msg) ==
    <<Send(o.output_stream_name, Message(Call(o.lambda, msg), msg.timestamp, ""))>>

\* a slip: the payload is never iterated
MapManyData_Single(o, msg) ==
    <<IF o.lambda # "None" THEN Call(o.lambda, msg) ELSE msg.data>>

\* MapManyOp.on_msg, lines 208-215: the list the for loop runs over
MapManyData(o, msg) ==
    LET data == IF o.lambda # "None" THEN Call(o.lambda, msg) ELSE msg.data
    IN  IF msg.data.iter
          THEN [i \in 1..Len(msg.data.v) |-> Plain(msg.data.v[i])]
          ELSE <<data>>

\* MapManyOp.on_msg: what one call sends
MapManyOnMsg(o, msg) ==
    LET data == MapManyData(o, msg)
    IN  [i \in 1..Len(data) |->
            Send(o.output_stream_name, Message(data[i], msg.timestamp, ""))]

\* the engine invokes WhereOp.on_msg on one message
WhereStep ==
    /\ op.cls = "WhereOp"
    /\ Len(op_log) < MaxOpMsgs
    /\ \E msg \in OpInputs("WhereOp") :
          /\ op_log' = Append(op_log, [msg |-> msg, out |-> WhereOnMsg(op, msg), raised |-> FALSE])
          /\ op_sent' = op_sent \o WhereOnMsg(op, msg)
    /\ UNCHANGED <<op, rec_vars, rp_vars>>

\* the engine invokes MapOp.on_msg on one message
MapStep ==
    /\ op.cls = "MapOp"
    /\ Len(op_log) < MaxOpMsgs
    /\ \E msg \in OpInputs("MapOp") :
          /\ op_log' = Append(op_log, [msg |-> msg, out |-> MapOnMsg(op, msg), raised |-> FALSE])
          /\ op_sent' = op_sent \o MapOnMsg(op, msg)
    /\ UNCHANGED <<op, rec_vars, rp_vars>>

\* the engine invokes MapManyOp.on_msg on one message
MapManyStep ==
    /\ op.cls = "MapManyOp"
    /\ Len(op_log) < MaxOpMsgs
    /\ \E msg \in OpInputs("MapManyOp") :
          /\ op_log' = Append(op_log, [msg |-> msg, out |-> MapManyOnMsg(op, msg), raised |-> FALSE])
          /\ op_sent' = op_sent \o MapManyOnMsg(op, msg)
    /\ UNCHANGED <<op, rec_vars, rp_vars>>

\* a slip: a message equal to the one handled just before is taken for a
\* duplicate and dropped
ConcatOnMsg_SkipRepeat(o, msg) ==
    IF Len(op_log) > 0 /\ op_log[Len(op_log)].msg = msg
      THEN <<>>
      ELSE <<Send(o.output_stream_name, msg)>>

\* a slip: a message is rebuilt from payload and timestamp instead of forwarded
ConcatOnMsg_Rebuilt(o, msg) ==
    <<Send(o.output_stream_name, Message(msg.data, msg.timestamp, ""))>>

\* ConcatOp.on_msg: what one call sends
ConcatOnMsg(o, msg) == <<Send(o.output_stream_name, msg)>>

\* the engine invokes ConcatOp.on_msg on one message of one of the upstreams
ConcatStep ==
    /\ op.cls = "ConcatOp"
    /\ Len(op_log) < MaxOpMsgs
    /\ \E msg \in OpInputs("ConcatOp") :
          /\ op_log' = Append(op_log,
                 [msg |-> msg, out |-> ConcatOnMsg(op, msg), raised |-> FALSE])
          /\ op_sent' = op_sent \o ConcatOnMsg(op, msg)
    /\ UNCHANGED <<op, rec_vars, rp_vars>>

\* Timestamp(msg.timestamp): a new timestamp with the coordinates of the given one
TimestampCopy(ts) == ts

\* UnzipOp.on_msg, line 255: (left_val, right_val) = msg.data raises TypeError
\* on a payload that is not iterable and ValueError on one that has not
\* exactly two elements
UnpackRaises(data) == ~data.iter \/ Len(data.v) # 2

\* a slip: the values are taken by index and the first is sent before the
\* second is looked at
UnzipOnMsg_Partial(o, msg) ==
    IF msg.data.iter /\ Len(msg.data.v) >= 2
      THEN <<Send(o.output_stream_name1,
                  Message(Plain(msg.data.v[1]), TimestampCopy(msg.timestamp), "")),
             Send(o.output_stream_name2,
                  Message(Plain(msg.data.v[2]), TimestampCopy(msg.timestamp), ""))>>
      ELSE IF msg.data.iter /\ Len(msg.data.v) = 1
        THEN <<Send(o.output_stream_name1,
                    Message(Plain(msg.data.v[1]), TimestampCopy(msg.timestamp), ""))>>
        ELSE <<>>

\* a slip: both values go to the first output stream
UnzipOnMsg_SameStream(o, msg) ==
    IF UnpackRaises(msg.data) THEN <<>>
    ELSE <<Send(o.output_stream_name1,
                Message(Plain(msg.data.v[1]), TimestampCopy(msg.timestamp), "")),
           Send(o.output_stream_name1,
                Message(Plain(msg.data.v[2]), TimestampCopy(msg.timestamp), ""))>>

\* UnzipOp.on_msg: what one call sends
UnzipOnMsg(o, msg) ==
    IF UnpackRaises(msg.data) THEN <<>>
    ELSE <<Send(o.output_stream_name1,
                Message(Plain(msg.data.v[1]), TimestampCopy(msg.timestamp), "")),
           Send(o.output_stream_name2,
                Message(Plain(msg.data.v[2]), TimestampCopy(msg.timestamp), ""))>>

\* the engine invokes UnzipOp.on_msg on one message
UnzipStep ==
    /\ op.cls = "UnzipOp"
    /\ Len(op_log) < MaxOpMsgs
    /\ \E msg \in OpInputs("UnzipOp") :
          /\ op_log' = Append(op_log,
                 [msg |-> msg, out |-> UnzipOnMsg(op, msg),
                  raised |-> UnpackRaises(msg.data)])
          /\ op_sent' = op_sent \o UnzipOnMsg(op, msg)
    /\ UNCHANGED <<op, rec_vars, rp_vars>>

vars == <<rec_vars, rp_vars, op_vars>>

\* the record/replay state before anything ran
RecordReplayInit ==
    /\ input_streams \in InputConfigs
    /\ filter \in {"", "a"}
    /\ callbacks = {}
    /\ rec_pc = "new"
    /\ rec_has_file = FALSE
    /\ file \in {<<>>, OldFile}
    /\ delivered = <<>>
    /\ frequency \in {0, 1}
    /\ rp_pc = "new"
    /\ output_streams = <<>>
    /\ rp_pos = 0
    /\ rp_closed = FALSE
    /\ emitted = <<>>
    /\ rp_calls = 0
    /\ rp_raised = 0

\* no transformation operator in the pipeline
NoOp ==
    /\ op = [cls |-> "none"]
    /\ op_log = <<>>
    /\ op_sent = <<>>

Init == RecordReplayInit /\ NoOp

\* the engine delivers a message to the registered callback: callbacks fire one
\* at a time, from setup_streams on, before or after the engine ran execute
Deliver ==
    /\ rec_pc \in {"ready", "running"}
    /\ \E s \in StreamNames, d \in Payloads, t \in Timestamps :
          RecordData(Message(d, t, s))

Next ==
    \/ RecordSetupStreams
    \/ RecordExecute
    \/ Deliver
    \/ RecordStop
    \/ ReplaySetupStreams
    \/ ReplayExecute
    \/ PublishLoop
    \/ PublishTick

Spec == Init /\ [][Next]_vars

\* a pipeline with one transformation operator and no recorder or player
NoRecordReplay ==
    /\ input_streams = <<>>
    /\ filter = ""
    /\ callbacks = {}
    /\ rec_pc = "none"
    /\ rec_has_file = FALSE
    /\ file = <<>>
    /\ delivered = <<>>
    /\ frequency = 0
    /\ rp_pc = "none"
    /\ output_streams = <<>>
    /\ rp_pos = 0
    /\ rp_closed = FALSE
    /\ emitted = <<>>
    /\ rp_calls = 0
    /\ rp_raised = 0

InitOps ==
    /\ op \in Operators
    /\ op_log = <<>>
    /\ op_sent = <<>>
    /\ NoRecordReplay

NextOps ==
    \/ WhereStep
    \/ MapStep
    \/ MapManyStep
    \/ ConcatStep
    \/ UnzipStep

SpecOps == InitOps /\ [][NextOps]_vars

\* the files a player can find on disk: a stream info and up to MaxFileMsgs
\* messages, whose stream names need not be among those of the stream info
RECURSIVE MsgPickles(_)
MsgPickles(n) ==
    IF n = 0 THEN {<<>>}
    ELSE MsgPickles(n - 1) \cup
         {Append(f, PickleDumpMsg(Message(1, t, name))) :
             f \in {g \in MsgPickles(n - 1) : Len(g) = n - 1},
             t \in Timestamps, name \in StreamNames}

FilesOnDisk ==
    {<<PickleDumpList(InputStreamInfo(streams))>> \o f :
        streams \in InputConfigs, f \in MsgPickles(MaxFileMsgs)}

\* a player on a file of unknown origin, no recorder and no other operator
InitReplayFile ==
    /\ input_streams = <<>>
    /\ filter = ""
    /\ callbacks = {}
    /\ rec_pc = "none"
    /\ rec_has_file = FALSE
    /\ file \in FilesOnDisk
    /\ delivered = <<>>
    /\ frequency \in {0, 1}
    /\ rp_pc = "new"
    /\ output_streams = <<>>
    /\ rp_pos = 0
    /\ rp_closed = FALSE
    /\ emitted = <<>>
    /\ rp_calls = 0
    /\ rp_raised = 0
    /\ NoOp

NextReplayFile ==
    \/ ReplaySetupStreams
    \/ ReplayExecute
    \/ PublishLoop
    \/ PublishTick

SpecReplayFile == InitReplayFile /\ [][NextReplayFile]_vars

(* ============================ the claims =============================== *)
Pairs(msgs) == [i \in 1..Len(msgs) |-> <<msgs[i].data, msgs[i].timestamp>>]
Msgs(log)   == [i \in 1..Len(log) |-> log[i].msg]
IsPrefix(s, t) == Len(s) <= Len(t) /\ \A i \in 1..Len(s) : s[i] = t[i]

\* the (payload, timestamp) pairs record_data wrote for stream s, in arrival order
RecordedOn(s) ==
    Pairs(Msgs(SelectSeq(delivered, LAMBDA e : e.ok /\ e.msg.stream_name = s)))

\* the (payload, timestamp) pairs the player sent on output stream s, in order
EmittedOn(s) ==
    Pairs(Msgs(SelectSeq(emitted, LAMBDA e : e.stream = s)))

\* the messages of a file, after its stream info
FileMessages(f) == [i \in 1..(Len(f) - 1) |-> PickleLoadMsg(f[i + 1])]

C2_FileOrder ==
    rp_pc = "running" =>
        /\ Len(emitted) <= Len(file) - 1
        /\ Len(emitted) = rp_pos - 2
        /\ \A i \in 1..Len(emitted) :
              /\ IsMsgPickle(file[i + 1])
              /\ emitted[i].msg = FileMessages(file)[i]
              /\ emitted[i].stream = FileMessages(file)[i].stream_name

C2_Witness ==
    /\ rp_pc = "running"
    /\ input_streams = <<StreamB, StreamA>>
    /\ Len(emitted) = 3
    /\ emitted[1].stream = "a" /\ emitted[2].stream = "b" /\ emitted[3].stream = "a"

\* C3: once the player's file is closed, a call of publish_data changes nothing:
\* the file stays closed, nothing is read, nothing is sent, nothing is raised.
C3_ClosedIsTerminal ==
    [][(rp_pc = "running" /\ rp_closed) =>
          /\ rp_closed'
          /\ rp_pos' = rp_pos
          /\ emitted' = emitted
          /\ rp_raised' = rp_raised]_vars

\* two calls were made after the one that closed the file
C3_Witness ==
    /\ rp_pc = "running" /\ rp_closed
    /\ Len(emitted) > 0
    /\ rp_calls = Len(file) + 2

\* C4: for a file of n messages, after k calls of publish_data the player has
\* sent exactly the first min(k, n) messages; the file is closed exactly from
\* call n+1 on, and no call raises.
C4_CallsAndEof ==
    (rp_pc = "running" \/ rp_calls > 0) =>
        LET n == Len(file) - 1
            k == rp_calls
            m == IF k <= n THEN k ELSE n
        IN  /\ Msgs(emitted) = SubSeq(FileMessages(file), 1, m)
            /\ rp_closed <=> k >= n + 1
            /\ rp_raised = 0

\* call n+1 on a file of two messages: both sent, the file just closed
C4_Witness ==
    /\ rp_pc = "running"
    /\ Len(file) = 3 /\ rp_calls = 3
    /\ Len(emitted) = 2 /\ rp_closed

\* C5: from the first message handed to record_data on, and from execute on,
\* the target file holds the stream info exactly once, as its first record,
\* and no message record comes before it.
C5_ManifestFirst ==
    ((\E i \in 1..Len(delivered) : delivered[i].called) \/ rec_has_file) =>
        /\ Len(file) >= 1
        /\ IsListPickle(file[1])
        /\ PickleLoadList(file[1]) = InputStreamInfo(input_streams)
        /\ Cardinality({i \in 1..Len(file) : IsListPickle(file[i])}) = 1

\* C6: the output streams of the player are the entries of the file's stream
\* info, one each, in that order, with the entry's type and name, from
\* setup_streams on and through every call of execute and publish_data.
C6_OutputStreams ==
    rp_pc \in {"setup", "running"} =>
        LET info == PickleLoadList(file[1])
        IN  /\ Len(output_streams) = Len(info)
            /\ \A i \in 1..Len(info) :
                  /\ output_streams[i].data_type = info[i][1]
                  /\ output_streams[i].name = info[i][2]
            /\ rec_has_file => output_streams = input_streams

C6_Witness ==
    /\ rp_pc = "running" /\ rp_calls > 1
    /\ input_streams = <<StreamB, StreamA>>
    /\ output_streams = <<StreamB, StreamA>>

\* the messages of the log a WhereOp's predicate accepts, in arrival order
Accepted == SelectSeq(Msgs(op_log), LAMBDA m : Call(op.lambda, m))

\* C7: a WhereOp sends a message its predicate accepts exactly once, unchanged,
\* on its output stream and sends nothing for a rejected one; all it has sent
\* is the sub-sequence of the accepted messages, in arrival order.
C7_Gate ==
    op.cls = "WhereOp" =>
        /\ \A i \in 1..Len(op_log) :
              IF Call(op.lambda, op_log[i].msg)
                THEN /\ Len(op_log[i].out) = 1
                     /\ op_log[i].out[1].stream = op.output_stream_name
                     /\ op_log[i].out[1].msg = op_log[i].msg
                ELSE op_log[i].out = <<>>
        /\ Msgs(op_sent) = Accepted

C7_Witness ==
    /\ op.cls = "WhereOp" /\ op.lambda = "positive"
    /\ Len(op_log) = 2
    /\ op_log[1].out = <<>>
    /\ Len(op_log[2].out) = 1

\* C8: a MapOp sends exactly one message per input message, with payload
\* f(m) and m's timestamp, in arrival order.
C8_Mapper ==
    op.cls = "MapOp" =>
        /\ \A i \in 1..Len(op_log) :
              /\ Len(op_log[i].out) = 1
              /\ op_log[i].out[1].stream = op.output_stream_name
              /\ op_log[i].out[1].msg.data = Call(op.lambda, op_log[i].msg)
              /\ op_log[i].out[1].msg.timestamp = op_log[i].msg.timestamp
        /\ Len(op_sent) = Len(op_log)
        /\ \A i \in 1..Len(op_log) : op_sent[i] = op_log[i].out[1]

C8_Witness ==
    /\ op.cls = "MapOp" /\ op.lambda = "negate"
    /\ Len(op_log) = 2
    /\ op_log[1].msg.data = Plain(2) /\ op_log[1].out[1].msg.data = Plain(0 - 2)
    /\ op_log[1].msg.timestamp # op_log[2].msg.timestamp

\* the messages expanding payload p of a message with timestamp ts gives:
\* one per element of an iterable, in order; one with p itself otherwise
Expansion(p, ts) ==
    IF p.iter THEN [j \in 1..Len(p.v) |-> [data |-> Plain(p.v[j]), timestamp |-> ts]]
              ELSE <<[data |-> p, timestamp |-> ts]>>

DataAndTs(sends) ==
    [j \in 1..Len(sends) |->
        [data |-> sends[j].msg.data, timestamp |-> sends[j].msg.timestamp]]

\* C9: a MapManyOp without a map_lambda sends, for an iterable payload of k
\* elements, k messages carrying the elements in order, and for any other
\* payload one message carrying it; every one has the input's timestamp.
C9_Expander ==
    (op.cls = "MapManyOp" /\ op.lambda = "None") =>
        \A i \in 1..Len(op_log) :
            /\ DataAndTs(op_log[i].out) =
                   Expansion(op_log[i].msg.data, op_log[i].msg.timestamp)
            /\ \A j \in 1..Len(op_log[i].out) :
                   op_log[i].out[j].stream = op.output_stream_name

C9_Witness ==
    /\ op.cls = "MapManyOp" /\ op.lambda = "None"
    /\ Len(op_log) = 2
    /\ op_log[1].msg.data = Iterable(<<1, 2>>) /\ Len(op_log[1].out) = 2
    /\ op_log[2].msg.data = Plain(2) /\ Len(op_log[2].out) = 1

\* C10: a MapManyOp with a map_lambda g expands g(m): the elements of g(m) in
\* order if g(m) is iterable, the one payload g(m) otherwise.
C10_ExpandsMapped ==
    (op.cls = "MapManyOp" /\ op.lambda # "None") =>
        \A i \in 1..Len(op_log) :
            DataAndTs(op_log[i].out) =
                Expansion(Call(op.lambda, op_log[i].msg), op_log[i].msg.timestamp)

\* C11: for a payload (a, b) an UnzipOp sends exactly two messages: a on its
\* first output stream and b on its second, each with a timestamp equal to
\* the input's.
C11_Splitter ==
    op.cls = "UnzipOp" =>
        \A i \in 1..Len(op_log) :
            (op_log[i].msg.data.iter /\ Len(op_log[i].msg.data.v) = 2) =>
                LET out == op_log[i].out
                    m   == op_log[i].msg
                IN  /\ ~op_log[i].raised
                    /\ Len(out) = 2
                    /\ out[1].stream = op.output_stream_name1
                    /\ out[1].msg.data = Plain(m.data.v[1])
                    /\ out[1].msg.timestamp = m.timestamp
                    /\ out[2].stream = op.output_stream_name2
                    /\ out[2].msg.data = Plain(m.data.v[2])
                    /\ out[2].msg.timestamp = m.timestamp

C11_Witness ==
    /\ op.cls = "UnzipOp"
    /\ Len(op_log) = 2
    /\ op_log[1].msg.data = Iterable(<<1, 2>>) /\ op_log[1].msg.timestamp = 2
    /\ op_log[2].msg.data = Iterable(<<1, 2>>) /\ op_log[2].msg.timestamp = 1
    /\ Len(op_sent) = 4
    /\ op_sent[1].stream = OutName1 /\ op_sent[2].stream = OutName2

\* C12: a ConcatOp forwards every message of every upstream unchanged, once,
\* on its one output stream, in the order the messages arrived.
C12_Merge ==
    op.cls = "ConcatOp" =>
        /\ Msgs(op_sent) = Msgs(op_log)
        /\ \A i \in 1..Len(op_sent) : op_sent[i].stream = op.output_stream_name
        /\ \A i \in 1..Len(op_log) : Len(op_log[i].out) = 1

\* two upstreams, the later timestamp arriving first
C12_Witness ==
    /\ op.cls = "ConcatOp"
    /\ Len(op_sent) = 2
    /\ op_sent[1].msg.stream_name = "in2" /\ op_sent[1].msg.timestamp = 2
    /\ op_sent[2].msg.stream_name = "in" /\ op_sent[2].msg.timestamp = 1

RECURSIVE Outs(_)
Outs(log) == IF log = <<>> THEN <<>> ELSE Head(log).out \o Outs(Tail(log))

\* C20: handling a message leaves the operator's fields as they are; what a
\* call sends is the same for the same message whatever was handled before;
\* and the sends so far are exactly those of the calls so far, in order.
C20_Stateless ==
    /\ [][op' = op]_vars
    /\ [](/\ \A i, j \in 1..Len(op_log) :
                op_log[i].msg = op_log[j].msg =>
                    /\ op_log[i].out = op_log[j].out
                    /\ op_log[i].raised = op_log[j].raised
          /\ op_sent = Outs(op_log))

\* the same message handled twice in a row, forwarded both times
C20_Witness ==
    /\ op.cls = "ConcatOp"
    /\ Len(op_log) = 2
    /\ op_log[1].msg = op_log[2].msg
    /\ Len(op_sent) = 2

\* C13: when publish_data has read a message whose stream name is none of
\* the output streams, the error went out of publish_data (the file is not
\* closed as at end-of-file), the message was sent nowhere, and nothing was
\* read or sent after it.
C13_UnknownStreamIsFatal ==
    \A i \in 2..(rp_pos - 1) :
        LookupFails(PickleLoadMsg(file[i]).stream_name) =>
            /\ rp_pc = "failed"
            /\ rp_raised = 1
            /\ ~rp_closed
            /\ i = rp_pos - 1
            /\ Msgs(emitted) = SubSeq(FileMessages(file), 1, i - 2)

\* the second message of the file is the one with the unknown stream
C13_Witness ==
    /\ rp_pc = "failed"
    /\ rp_raised = 1
    /\ rp_pos = 4
    /\ Len(emitted) = 1
    /\ PickleLoadMsg(file[3]).stream_name \notin OutputNames

\* C15: at frequency 0, once end-of-file has been detected (the file is
\* closed) the loop of execute makes no further call of publish_data.
C15_StopsAtEof ==
    (frequency = 0 /\ rp_pc = "running" /\ rp_closed) => ~ENABLED PublishLoop

\* C16: with a frequency set, a call of publish_data on an open file with an
\* unread message reads exactly that one record and sends exactly that one
\* message; any other call reads nothing and sends nothing.
C16_OnePerTick ==
    [][(frequency # 0 /\ rp_pc = "running" /\ rp_calls' = rp_calls + 1) =>
          IF ~rp_closed /\ rp_pos <= Len(file)
            THEN /\ rp_pos' = rp_pos + 1
                 /\ Len(emitted') = Len(emitted) + 1
                 /\ SubSeq(emitted', 1, Len(emitted)) = emitted
                 /\ emitted'[Len(emitted')].msg = PickleLoadMsg(file[rp_pos])
            ELSE /\ rp_pos' = rp_pos
                 /\ emitted' = emitted]_vars

\* two emitting ticks, the tick that met end-of-file, one tick after it
C16_Witness ==
    /\ frequency # 0 /\ rp_pc = "running"
    /\ Len(file) = 3 /\ Len(emitted) = 2
    /\ rp_closed /\ rp_calls = 4

\* the messages that arrived on a stream record_data is registered on
Arrived == Msgs(SelectSeq(delivered, LAMBDA e : e.called))

\* C17: the message records of the file the recorder opened are exactly the
\* messages that arrived on the streams passing the name filter, each once,
\* in arrival order; no message of another stream is in the file.
C17_FileIsArrivals ==
    (rec_has_file /\ Len(file) >= 1) =>
        /\ FileMessages(file) = Arrived
        /\ \A i \in 2..Len(file) : PickleLoadMsg(file[i]).stream_name \in callbacks

\* C18: the stream info execute writes lists every declared input stream,
\* in declaration order, with or without a name filter; the file holds
\* messages of the streams passing the filter only, and a player of the file
\* declares an output stream for every listed stream and sends nothing on
\* those the filter left out.
C18_ManifestIgnoresFilter ==
    rec_has_file =>
        /\ PickleLoadList(file[1]) = InputStreamInfo(input_streams)
        /\ \A i \in 2..Len(file) : PickleLoadMsg(file[i]).stream_name \in callbacks
        /\ rp_pc \in {"setup", "running"} =>
              /\ OutputNames = AllNames(input_streams)
              /\ \A i \in 1..Len(emitted) : emitted[i].stream \in callbacks

\* filter "a" over streams a and b: a message arrived on b, the file was
\* replayed to its end, b is an output stream and got nothing
C18_Witness ==
    /\ rec_has_file /\ filter = "a"
    /\ input_streams = <<StreamA, StreamB>>
    /\ \E i \in 1..Len(delivered) : delivered[i].msg.stream_name = "b"
    /\ rp_pc = "running" /\ rp_closed
    /\ "b" \in OutputNames
    /\ Len(emitted) > 0
    /\ \A i \in 1..Len(emitted) : emitted[i].stream = "a"

\* C19 as claimed: no step of the recorder removes or changes a record of
\* the target file, execute on a file that holds records included.
C19_AppendOnly ==
    [][IsPrefix(file, file')]_vars

\* C19 as amended: from the moment execute has opened the target file no
\* step removes or changes a record of it; execute itself empties the file.
C19_AppendOnlyOnceOpen ==
    /\ [][rec_has_file => IsPrefix(file, file')]_vars
    /\ [][(~rec_has_file /\ rec_has_file') =>
             file' = <<PickleDumpList(InputStreamInfo(input_streams))>>]_vars

C19_Witness ==
    /\ rec_has_file
    /\ Len(file) = 3
    /\ rec_pc = "stopped"

====
